---- MODULE Spec2Model ----
(***************************************************************************)
(* A model of the savant-logger frontend: the FileUploader component, the  *)
(* Home page state it drives, the DeviceTable's device request and the     *)
(* rendering of one device row.                                            *)
(*                                                                         *)
(* Optional JavaScript values (undefined / null) are modelled as           *)
(* sequences of length at most one: <<>> is an absent value, <<v>> is the  *)
(* present value v.                                                        *)
(***************************************************************************)
EXTENDS Integers, Sequences, FiniteSets, TLC

VARIABLES
    \* FileUploader (src/frontend/app/components/FileUploader.tsx)
    uploading,        \* the useState flag of the component
    pc,               \* per drop: where its onDrop invocation stands
    result,           \* per drop: project_name of the upload result, a local
                      \* of onDrop (optional; gone when the invocation ends)
    outcome,          \* per drop: how its onDrop invocation ended
    invoked,          \* per drop: the onUploadSuccess calls it made, in order
    lastProjects,     \* body of the latest /projects response read by onDrop
    \* Home (src/frontend/app/page.tsx)
    selectedProject,
    selectedCapture,
    refreshTrigger,
    \* DeviceTable request effect (src/unnamed/part_001)
    projectId,        \* prop
    captureId,        \* prop (optional)
    requests,         \* every device request issued, in order
    settled,          \* per request: "pending", then "ok" or "error"
    devices,          \* the useState array: <<>> or the response shown
    loading,
    \* DeviceTable row rendering (src/unnamed/part_001)
    device,           \* the device record handed to the row
    row               \* the rendered row (optional)

uploaderVars == <<uploading, pc, result, outcome, invoked, lastProjects,
                  selectedProject, selectedCapture, refreshTrigger>>
tableVars == <<projectId, captureId, requests, settled, devices, loading>>
rowVars == <<device, row>>
vars == <<uploaderVars, tableVars, rowVars>>

(***************************************************************************)
(* Bounds of the model.                                                    *)
(***************************************************************************)
MaxDrops == 2

MaxProjects == 2

MaxRequests == 3

MaxHistory == 6

(***************************************************************************)
(* JavaScript helpers.                                                     *)
(***************************************************************************)
Absent == <<>>

Some(v) == <<v>>

\* Truthiness of an optional string: undefined, null and "" are falsy.
TruthyString(v) == v # Absent /\ v[1] # ""

\* Truthiness of an optional number: undefined, null and 0 are falsy.
TruthyNumber(v) == v # Absent /\ v[1] # 0

(***************************************************************************)
(* FileUploader.                                                           *)
(***************************************************************************)
DropIds == 1..MaxDrops

ProjectNames == {"alpha", "beta"}

ProjectIds == 1..MaxProjects

\* The bodies GET /projects can answer with: up to MaxProjects projects with
\* pairwise distinct ids (the i-th project has id i) and any names, which
\* may repeat. onDrop never looks into an id, it only passes it on.
ProjectLists ==
    UNION {{[i \in 1..n |-> [id |-> i, name |-> names[i]]] :
              names \in [1..n -> ProjectNames]} : n \in 0..MaxProjects}

\* Array.prototype.find with the predicate p => p.name === name, scanning
\* from index i: the first matching element, or undefined.
RECURSIVE findFrom(_, _, _)
findFrom(projects, name, i) ==
    IF i > Len(projects) THEN Absent
    ELSE IF name # Absent /\ projects[i].name = name[1] THEN Some(projects[i])
    ELSE findFrom(projects, name, i + 1)

\* A find that keeps scanning and answers with the last match.
RECURSIVE findLastFrom(_, _, _)
findLastFrom(projects, name, i) ==
    IF i < 1 THEN Absent
    ELSE IF name # Absent /\ projects[i].name = name[1] THEN Some(projects[i])
    ELSE findLastFrom(projects, name, i - 1)

findLast(projects, name) == findLastFrom(projects, name, Len(projects))

find(projects, name) == findFrom(projects, name, 1)

\* The project_name an upload result can carry (it may be missing).
UploadResults == {Absent} \cup {Some(n) : n \in ProjectNames}

InitUploader ==
    /\ uploading = FALSE
    /\ pc = [d \in DropIds |-> "idle"]
    /\ result = [d \in DropIds |-> Absent]
    /\ outcome = [d \in DropIds |-> "pending"]
    /\ invoked = [d \in DropIds |-> <<>>]
    /\ lastProjects = <<>>
    /\ selectedProject = Absent
    /\ selectedCapture = Absent
    /\ refreshTrigger = 0

\* Home.handleUploadSuccess, the onUploadSuccess prop of the uploader.
handleUploadSuccess(d, id, name) ==
    /\ invoked' = [invoked EXCEPT ![d] = Append(@, <<id, name>>)]
    /\ refreshTrigger' = refreshTrigger + 1
    /\ selectedProject' = Some(id)
    /\ selectedCapture' = Absent

\* A catch block with no finally after it: the flag is left as it is.
CatchNoFinally(d, why) ==
    /\ pc' = [pc EXCEPT ![d] = "done"]
    /\ outcome' = [outcome EXCEPT ![d] = why]
    /\ result' = [result EXCEPT ![d] = Absent]
    /\ UNCHANGED <<uploading, invoked, lastProjects,
                   selectedProject, selectedCapture, refreshTrigger>>

\* The catch and finally blocks of onDrop, entered for the reason why.
CatchFinally(d, why) ==
    /\ uploading' = FALSE
    /\ pc' = [pc EXCEPT ![d] = "done"]
    /\ outcome' = [outcome EXCEPT ![d] = why]
    /\ result' = [result EXCEPT ![d] = Absent]
    /\ UNCHANGED <<invoked, lastProjects,
                   selectedProject, selectedCapture, refreshTrigger>>

\* Drops are numbered in the order they happen.
IsNextDrop(d) == pc[d] = "idle" /\ \A e \in 1..(d - 1) : pc[e] # "idle"

\* onDrop with no accepted file: returns at once.
OnDropNoFile(d) ==
    /\ IsNextDrop(d)
    /\ pc' = [pc EXCEPT ![d] = "returned"]
    /\ outcome' = [outcome EXCEPT ![d] = "nofile"]
    /\ UNCHANGED <<uploading, result, invoked, lastProjects,
                   selectedProject, selectedCapture, refreshTrigger>>
    /\ UNCHANGED <<tableVars, rowVars>>

\* onDrop with an accepted file, up to the first await (the upload request).
OnDropFile(d) ==
    /\ IsNextDrop(d)
    /\ uploading' = TRUE
    /\ pc' = [pc EXCEPT ![d] = "awaitUpload"]
    /\ UNCHANGED <<result, outcome, invoked, lastProjects,
                   selectedProject, selectedCapture, refreshTrigger>>
    /\ UNCHANGED <<tableVars, rowVars>>

\* The upload request rejects, or reading its body throws.
UploadThrows(d) ==
    /\ pc[d] = "awaitUpload"
    /\ CatchFinally(d, "uploadThrew")
    /\ UNCHANGED <<tableVars, rowVars>>

\* The upload request answers with response.ok false.
UploadNotOk(d) ==
    /\ pc[d] = "awaitUpload"
    /\ CatchFinally(d, "uploadNotOk")
    /\ UNCHANGED <<tableVars, rowVars>>

\* The upload request answers ok with a result; the /projects request is
\* issued.
UploadOk(d, name) ==
    /\ pc[d] = "awaitUpload"
    /\ result' = [result EXCEPT ![d] = name]
    /\ pc' = [pc EXCEPT ![d] = "awaitProjects"]
    /\ UNCHANGED <<uploading, outcome, invoked, lastProjects,
                   selectedProject, selectedCapture, refreshTrigger>>
    /\ UNCHANGED <<tableVars, rowVars>>

\* The /projects request rejects, or reading its body throws.
ProjectsThrows(d) ==
    /\ pc[d] = "awaitProjects"
    /\ CatchFinally(d, "projectsThrew")
    /\ UNCHANGED <<tableVars, rowVars>>

\* The /projects request answers with a list: find, the optional
\* onUploadSuccess call, then the finally block.
ProjectsArrive(d, projects) ==
    /\ pc[d] = "awaitProjects"
    /\ lastProjects' = projects
    /\ LET uploadedProject == find(projects, result[d]) IN
         IF uploadedProject # Absent
         THEN /\ handleUploadSuccess(d, uploadedProject[1].id, uploadedProject[1].name)
              /\ outcome' = [outcome EXCEPT ![d] = "matched"]
         ELSE /\ outcome' = [outcome EXCEPT ![d] = "nomatch"]
              /\ UNCHANGED <<invoked, selectedProject, selectedCapture, refreshTrigger>>
    /\ uploading' = FALSE
    /\ pc' = [pc EXCEPT ![d] = "done"]
    /\ result' = [result EXCEPT ![d] = Absent]
    /\ UNCHANGED <<tableVars, rowVars>>

Settle(d) ==
    \/ UploadThrows(d)
    \/ UploadNotOk(d)
    \/ \E name \in UploadResults : UploadOk(d, name)
    \/ ProjectsThrows(d)
    \/ \E projects \in ProjectLists : ProjectsArrive(d, projects)

NextUploader ==
    \/ \E d \in DropIds : OnDropNoFile(d)
    \/ \E d \in DropIds : OnDropFile(d)
    \/ \E d \in DropIds : UploadThrows(d)
    \/ \E d \in DropIds : UploadNotOk(d)
    \/ \E d \in DropIds : \E name \in UploadResults : UploadOk(d, name)
    \/ \E d \in DropIds : ProjectsThrows(d)
    \/ \E d \in DropIds : \E projects \in ProjectLists : ProjectsArrive(d, projects)

(***************************************************************************)
(* DeviceTable: the effect that requests the devices.                      *)
(***************************************************************************)
\* Capture ids the table can be given; id 0 is one of them.
CaptureIds == {Absent, Some(0), Some(1)}

\* The template literal of the effect: the path carries the project id and
\* the query string carries capture_id when captureId is truthy.
buildUrl(p, c) ==
    [project |-> p, capture_id |-> IF TruthyNumber(c) THEN c ELSE Absent]

\* The body of the response to fetch(url): the device view asked for by url.
ResponseFor(url) == [of |-> url]

\* fetch(url) of the effect, run for the props p, c.
Effect(p, c) ==
    /\ requests' = Append(requests, [projectId |-> p, captureId |-> c,
                                     url |-> buildUrl(p, c)])
    /\ settled' = Append(settled, "pending")

InFlight == {i \in 1..Len(requests) : settled[i] = "pending"}

\* The table is mounted with some props and its effect has run once.
InitTable ==
    /\ projectId \in ProjectIds
    /\ captureId \in CaptureIds
    /\ requests = <<[projectId |-> projectId, captureId |-> captureId,
                     url |-> buildUrl(projectId, captureId)]>>
    /\ settled = <<"pending">>
    /\ devices = <<>>
    /\ loading = TRUE

\* Home re-renders the table with other props: the effect's dependencies
\* changed, so it runs again. Nothing aborts the earlier requests.
SetProps(p, c) ==
    /\ <<p, c>> # <<projectId, captureId>>
    /\ Len(requests) < MaxRequests
    /\ projectId' = p
    /\ captureId' = c
    /\ Effect(p, c)
    /\ UNCHANGED <<devices, loading>>
    /\ UNCHANGED <<uploaderVars, rowVars>>

\* The .then chain of request i: setDevices(data), setLoading(false).
DevicesArrive(i) ==
    /\ i \in InFlight
    /\ devices' = Some(ResponseFor(requests[i].url))
    /\ loading' = FALSE
    /\ settled' = [settled EXCEPT ![i] = "ok"]
    /\ UNCHANGED <<projectId, captureId, requests>>
    /\ UNCHANGED <<uploaderVars, rowVars>>

\* The .catch of request i: setLoading(false).
DevicesFail(i) ==
    /\ i \in InFlight
    /\ loading' = FALSE
    /\ settled' = [settled EXCEPT ![i] = "error"]
    /\ UNCHANGED <<projectId, captureId, requests, devices>>
    /\ UNCHANGED <<uploaderVars, rowVars>>

NextTable ==
    \/ \E p \in ProjectIds : \E c \in CaptureIds : SetProps(p, c)
    \/ \E i \in 1..MaxRequests : DevicesArrive(i)
    \/ \E i \in 1..MaxRequests : DevicesFail(i)

(***************************************************************************)
(* DeviceTable: the rendering of one device row.                           *)
(***************************************************************************)
HistoryCap == 5

Min(a, b) == IF a < b THEN a ELSE b

Max(a, b) == IF a > b THEN a ELSE b

\* network_data.state: always a string (the default sort compares it).
StateValues == {Some("found"), Some("missing")}

RssiValues == {Some("-40"), Some("-70"), Absent}

\* overallHealthRate: numeric strings, a non-numeric raw string, or no
\* value (also when health_data itself is missing).
HealthValues == {Some("95"), Some("80"), Some("N/A"), Absent}

Snapshots == [state : StateValues, rssi : RssiValues, overallHealthRate : HealthValues]

\* A stored lighting history of n entries, oldest first, all distinct.
History(n) ==
    [i \in 1..n |-> [state |-> IF i % 2 = 1 THEN "on" ELSE "off",
                     timestamp |-> "t" \o ToString(i)]]

Histories == {Absent} \cup {Some(History(n)) : n \in 0..MaxHistory}

Devices == [current : Snapshots,
            previous : {Absent} \cup {Some(s) : s \in Snapshots},
            lighting_history : Histories]

\* device.previous?.field
PreviousField(d, f) == IF d.previous = Absent THEN Absent ELSE d.previous[1][f]

\* getDiffStyle: {} when previous is falsy or equal to current.
getDiffStyle(current, previous) ==
    IF ~TruthyString(previous) \/ current = previous
    THEN [backgroundColor |-> Absent, position |-> Absent]
    ELSE [backgroundColor |-> IF current = Some("found") THEN Some("bg-green-100")
                                                         ELSE Some("bg-red-100"),
          position |-> Some("relative")]

\* renderDiffValue: the bare current value, or the value with a tooltip
\* that names the previous one.
renderDiffValue(current, previous) ==
    IF ~TruthyString(previous) \/ current = previous
    THEN [tooltip |-> FALSE, text |-> current, previous |-> Absent]
    ELSE [tooltip |-> TRUE, text |-> current, previous |-> previous]

\* The template literal `${v}%`; an absent v is written "undefined".
Percent(v) == Some((IF v = Absent THEN "undefined" ELSE v[1]) \o "%")

\* v && `${v}%`
PercentIfTruthy(v) == IF TruthyString(v) THEN Percent(v) ELSE v

\* A slice whose end index is inclusive.
sliceInclusiveEnd(s, begin, end) ==
    [i \in 1..Max(Min(end + 1, Len(s)) - begin, 0) |-> s[begin + i]]

\* Array.prototype.slice(begin, end) for 0 <= begin <= end.
slice(s, begin, end) ==
    [i \in 1..Max(Min(end, Len(s)) - begin, 0) |-> s[begin + i]]

\* new Date(timestamp).toLocaleString()
toLocaleString(timestamp) == "local " \o timestamp

\* One line of the Recent History block.
HistoryLine(entry) ==
    [time |-> toLocaleString(entry.timestamp), state |-> entry.state]

\* The Recent History block: rendered when lighting_history is truthy (any
\* array is) and the current state is not "found".
RecentHistory(d) ==
    IF d.lighting_history # Absent /\ d.current.state # Some("found")
    THEN LET shown == slice(d.lighting_history[1], 0, HistoryCap) IN
         Some([i \in 1..Len(shown) |-> HistoryLine(shown[i])])
    ELSE Absent

\* The state, rssi, health-rate and status cells of the row of device d.
DeviceRow(d) ==
    [stateClass  |-> getDiffStyle(d.current.state,
                                  PreviousField(d, "state")).backgroundColor,
     stateCell   |-> renderDiffValue(d.current.state, PreviousField(d, "state")),
     rssiClass   |-> getDiffStyle(d.current.rssi,
                                  PreviousField(d, "rssi")).backgroundColor,
     rssiCell    |-> renderDiffValue(d.current.rssi, PreviousField(d, "rssi")),
     healthClass |-> getDiffStyle(d.current.overallHealthRate,
                                  PreviousField(d, "overallHealthRate")).backgroundColor,
     healthCell  |-> renderDiffValue(
                         Percent(d.current.overallHealthRate),
                         PercentIfTruthy(PreviousField(d, "overallHealthRate"))),
     history     |-> RecentHistory(d)]

InitRow ==
    /\ device \in Devices
    /\ row = Absent

\* sortedDevices.map renders the row of the device.
RenderRow ==
    /\ row = Absent
    /\ row' = Some(DeviceRow(device))
    /\ UNCHANGED device
    /\ UNCHANGED <<uploaderVars, tableVars>>

NextRow == RenderRow

(***************************************************************************)
(* Specifications. Each one runs one component; the others rest.           *)
(***************************************************************************)
RestUploader == InitUploader

RestTable ==
    /\ projectId = 1
    /\ captureId = Absent
    /\ requests = <<>>
    /\ settled = <<>>
    /\ devices = <<>>
    /\ loading = TRUE

RestRow ==
    /\ device = [current |-> [state |-> Some("found"), rssi |-> Absent,
                              overallHealthRate |-> Absent],
                 previous |-> Absent, lighting_history |-> Absent]
    /\ row = Absent

InitSpecUploader == InitUploader /\ RestTable /\ RestRow

InitSpecTable == RestUploader /\ InitTable /\ RestRow

InitSpecRow == RestUploader /\ RestTable /\ InitRow

SpecUploader == InitSpecUploader /\ [][NextUploader]_vars

\* Every request of a drop settles: the premise of the liveness property.
FairSpecUploader == SpecUploader /\ \A d \in DropIds : WF_vars(Settle(d))

SpecTable == InitSpecTable /\ [][NextTable]_vars

SpecRow == InitSpecRow /\ [][NextRow]_vars

(***************************************************************************)
(* Properties.                                                             *)
(***************************************************************************)
\* The classification of a tracked field from its current and previous
\* values, as the diff is specified.
DiffClass(current, previous) ==
    IF current = previous THEN "unchanged"
    ELSE IF previous = Absent THEN "appeared"
    ELSE IF current = Absent THEN "disappeared"
    ELSE "changed"

\* A cell shown exactly as an unchanged field is: no colour, no tooltip.
ShownAsUnchanged(class, cell) == class = Absent /\ ~cell.tooltip

\* C1: in every rendered row, each of the state, rssi and health-rate cells
\* is shown as an unchanged field exactly when its current and previous
\* values are equal (both absent included); an appeared, disappeared or
\* changed field is shown differently.
C1_DiffClassesDistinguished ==
    row # Absent =>
        /\ ShownAsUnchanged(row[1].stateClass, row[1].stateCell)
             <=> DiffClass(device.current.state, PreviousField(device, "state"))
                   = "unchanged"
        /\ ShownAsUnchanged(row[1].rssiClass, row[1].rssiCell)
             <=> DiffClass(device.current.rssi, PreviousField(device, "rssi"))
                   = "unchanged"
        /\ ShownAsUnchanged(row[1].healthClass, row[1].healthCell)
             <=> DiffClass(device.current.overallHealthRate,
                           PreviousField(device, "overallHealthRate")) = "unchanged"

\* The state of the device left "found" between its previous snapshot and
\* the current one.
LeftFound(d) ==
    /\ PreviousField(d, "state") = Some("found")
    /\ d.current.state # Some("found")

\* C2: in every rendered row, the Recent History block is present exactly
\* when the device has a lighting_history and its state left "found"
\* (previous state "found", current state not "found").
C2_HistoryOnlyOnLeavingFound ==
    row # Absent =>
        (row[1].history # Absent
           <=> (device.lighting_history # Absent /\ LeftFound(device)))

\* C3: whenever the Recent History block is rendered for a stored history
\* of n entries, it has min(n, 5) lines, never more than 5, and line i is
\* the line of the i-th stored entry.
C3_HistoryIsFirstFive ==
    (row # Absent /\ row[1].history # Absent) =>
        LET stored == device.lighting_history[1]
            shown == row[1].history[1]
        IN /\ Len(shown) = Min(Len(stored), 5)
           /\ Len(shown) <= 5
           /\ \A i \in 1..Len(shown) :
                /\ shown[i].state = stored[i].state
                /\ shown[i].time = toLocaleString(stored[i].timestamp)

\* A history longer than the cap has been rendered.
C3_Witness ==
    /\ row # Absent
    /\ row[1].history # Absent
    /\ Len(device.lighting_history[1]) > 5
    /\ Len(row[1].history[1]) = 5

NumericStrings == {"95", "80"}

IsNumeric(v) == v # Absent /\ v[1] \in NumericStrings

\* A health rate with "%" appended only when it is numeric.
PercentOnlyIfNumeric(v) == IF IsNumeric(v) THEN Some(v[1] \o "%") ELSE v

\* C4: in every rendered row, the health-rate cell shows the current value
\* with a "%" suffix only when the value is numeric, and its tooltip, when
\* there is one, shows the previous value under the same rule.
C4_PercentOnlyWhenNumeric ==
    row # Absent =>
        /\ row[1].healthCell.text = PercentOnlyIfNumeric(device.current.overallHealthRate)
        /\ row[1].healthCell.tooltip =>
             row[1].healthCell.previous
               = PercentOnlyIfNumeric(PreviousField(device, "overallHealthRate"))

FirstNamed(projects, name) ==
    projects[CHOOSE i \in 1..Len(projects) :
                /\ projects[i].name = name
                /\ \A j \in 1..(i - 1) : projects[j].name # name]

Named(projects, name) == {i \in 1..Len(projects) : projects[i].name = name}

\* C6: a drop invokes onUploadSuccess at most once; it does so only in the
\* step that reads the /projects list after an ok upload, only when that
\* list holds a project named as the upload result says, and then with the
\* id and name of the first such project; a drop that ends on a failed
\* upload, a thrown request or no matching name has invoked nothing.
C6_OnUploadSuccessOnce ==
    [][\A d \in DropIds :
         /\ Len(invoked'[d]) <= 1
         /\ invoked'[d] # invoked[d] =>
              /\ pc[d] = "awaitProjects"
              /\ result[d] # Absent
              /\ Named(lastProjects', result[d][1]) # {}
              /\ LET first == FirstNamed(lastProjects', result[d][1])
                 IN invoked'[d] = <<<<first.id, first.name>>>>
         /\ (pc[d] # "done" /\ pc'[d] = "done" /\ invoked'[d] = <<>>) =>
              \/ outcome'[d] \in {"uploadThrew", "uploadNotOk", "projectsThrew"}
              \/ result[d] = Absent
              \/ Named(lastProjects', result[d][1]) = {}
         /\ (pc'[d] = "done"
               /\ outcome'[d] \in {"uploadThrew", "uploadNotOk", "projectsThrew", "nomatch"})
              => invoked'[d] = <<>>
      ]_vars

\* A drop has invoked onUploadSuccess with the first of two projects that
\* carry the uploaded name.
C6_Witness ==
    \E d \in DropIds :
        /\ outcome[d] = "matched"
        /\ Len(lastProjects) = 2
        /\ lastProjects[1].name = lastProjects[2].name
        /\ invoked[d] = <<<<lastProjects[1].id, lastProjects[1].name>>>>

Awaiting == {"awaitUpload", "awaitProjects"}

\* C7: a drop with a file sets uploading to true in the step that issues
\* the upload request; a drop with no file leaves uploading as it is; the
\* step that ends a drop, on any outcome, sets uploading to false; and,
\* the requests settling, every drop with a file reaches that end.
C7_UploadingLifecycle ==
    /\ [][\A d \in DropIds :
            /\ (pc[d] = "idle" /\ pc'[d] = "awaitUpload") => uploading'
            /\ (pc[d] = "idle" /\ pc'[d] = "returned") => uploading' = uploading
            /\ (pc[d] \in Awaiting /\ pc'[d] = "done") => ~uploading'
       ]_vars
    /\ \A d \in DropIds :
           (pc[d] = "awaitUpload") ~> (pc[d] = "done" /\ ~uploading)

\* One drop had no file, another ended on a failed upload, and the flag is
\* back to false.
C7_Witness ==
    \E d, e \in DropIds :
        /\ outcome[d] = "nofile"
        /\ pc[e] = "done"
        /\ outcome[e] = "uploadNotOk"
        /\ ~uploading

\* C8: once no device request is in flight and the request for the
\* current props has succeeded, the devices shown are the response to the
\* request for the current (projectId, captureId).
C8_NoStaleDevices ==
    (InFlight = {} /\ settled[Len(requests)] = "ok") =>
        devices = Some(ResponseFor(buildUrl(projectId, captureId)))

\* C9: uploading is true whenever some upload started by onDrop has not
\* finished.
C9_UploadingWhileInFlight ==
    (\E d \in DropIds : pc[d] \in Awaiting) => uploading

====
